---- MODULE Spec2Model ----
(***************************************************************************)
(* A model of mcp-expose-notes: the configuration's effective source list, *)
(* the directory and daily note-set builders, the metadata extractor and   *)
(* the catalog queries of main.py.                                         *)
(*                                                                         *)
(* Text is a sequence of one-character strings; a directory path is the    *)
(* sequence of its parts (pathlib's parts, "/" first when absolute); a     *)
(* file path is a record [dir, name].  The filesystem maps a vault-relative*)
(* directory to [exists, files], files mapping a file name to its content. *)
(***************************************************************************)
EXTENDS Integers, Sequences, FiniteSets, TLC

VARIABLES pc, config, fs, notes, note_sets, result

vars == <<pc, config, fs, notes, note_sets, result>>

----------------------------------------------------------------------------
(* Bounds of the model.                                                    *)

\* longest configured source list
MaxSources == 2
\* largest configured source_id
MaxSourceId == 2
\* largest daily_notes.days
MaxDays == 2
\* longest daily_notes.paths
MaxDailyPaths == 2
\* number of distinct file stems a scanned directory may hold
MaxStems == 3
\* largest note_id a query asks for
MaxNoteId == 2
\* day of the month datetime.now() falls on (March 2024)
Today == 15

----------------------------------------------------------------------------
(* Text: characters in code-point order, as Python compares strings.       *)

Alphabet ==
    << " ", "-", ".", "0", "1", "2", "3", "4", "5", "6", "7", "8", "9", ":",
       "A", "B", "C", "D", "N", "T", "_",
       "a", "b", "c", "d", "e", "k", "m", "n", "o", "r", "t", "w", "x" >>

\* the rank of each character
Ranks == [c \in { Alphabet[i] : i \in 1..Len(Alphabet) } |->
            CHOOSE i \in 1..Len(Alphabet) : Alphabet[i] = c]

Ord(c) == Ranks[c]

Digits == << "0", "1", "2", "3", "4", "5", "6", "7", "8", "9" >>

Lower == << "a", "b", "c", "d", "n", "t" >>

Upper == << "A", "B", "C", "D", "N", "T" >>

Range(s) == { s[i] : i \in 1..Len(s) }

IsLower(c) == c \in Range(Lower)

IsUpper(c) == c \in Range(Upper)

ToUpper(c) ==
    IF IsLower(c) THEN Upper[CHOOSE i \in 1..Len(Lower) : Lower[i] = c] ELSE c

ToLower(c) ==
    IF IsUpper(c) THEN Lower[CHOOSE i \in 1..Len(Upper) : Upper[i] = c] ELSE c

IsCased(c) == IsLower(c) \/ IsUpper(c)

\* a < b for two texts: the first differing character decides, a proper
\* prefix comes first
LexLess(a, b) ==
    LET n == IF Len(a) < Len(b) THEN Len(a) ELSE Len(b)
        diff == { i \in 1..n : a[i] # b[i] }
    IN  IF diff = {} THEN Len(a) < Len(b)
        ELSE LET i == CHOOSE k \in diff : \A j \in diff : k <= j
             IN  Ord(a[i]) < Ord(b[i])

EndsWith(s, suffix) ==
    /\ Len(s) >= Len(suffix)
    /\ SubSeq(s, Len(s) - Len(suffix) + 1, Len(s)) = suffix

TwoDigits(n) == << Digits[(n \div 10) + 1], Digits[(n % 10) + 1] >>

IntText(n) == IF n < 10 THEN << Digits[n + 1] >> ELSE TwoDigits(n)

\* Optional[str]
NoneStr == [some |-> FALSE, s |-> << >>]

SomeStr(s) == [some |-> TRUE, s |-> s]

\* Python's  str(x) or None
StrOrNone(s) == IF s = << >> THEN NoneStr ELSE SomeStr(s)

----------------------------------------------------------------------------
(* Dates.  note_date.strftime("%Y-%m-%d") and isoformat(), for the days of *)
(* March 2024.  datetime.now() is read as the same instant, midnight of    *)
(* Today, throughout one build.                                            *)

MonthPrefix == << "2", "0", "2", "4", "-", "0", "3", "-" >>

Midnight == << "0", "0", ":", "0", "0", ":", "0", "0" >>

strftime(day) == MonthPrefix \o TwoDigits(day)

isoformat(day) == strftime(day) \o << "T" >> \o Midnight

MdSuffix == << ".", "m", "d" >>

MarkdownSuffix == << ".", "m", "a", "r", "k", "d", "o", "w", "n" >>

TxtSuffix == << ".", "t", "x", "t" >>

----------------------------------------------------------------------------
(* Paths.                                                                  *)

Cwd == << "/", "srv" >>

VaultAbs == << "/", "srv", "vault" >>

\* the configured vault_path: absolute and resolved, relative to the
\* working directory, absolute but not normalized
VaultForms == { VaultAbs, << "vault" >>, << "/", "srv", "tmp", "..", "vault" >> }

IsAbsolute(p) == Len(p) > 0 /\ p[1] = "/"

\* pathlib's  a / b
Join(a, b) == IF IsAbsolute(b) THEN b ELSE a \o b

RECURSIVE Collapse(_, _)
Collapse(done, rest) ==
    IF rest = << >> THEN done
    ELSE IF Head(rest) = ".."
         THEN Collapse(IF Len(done) > 1 THEN SubSeq(done, 1, Len(done) - 1)
                                        ELSE done,
                       Tail(rest))
         ELSE Collapse(Append(done, Head(rest)), Tail(rest))

\* Path.resolve(): absolute, ".." collapsed
Resolve(p) == Collapse(<< >>, IF IsAbsolute(p) THEN p ELSE Cwd \o p)

UnderVault(p) ==
    LET r == Resolve(p)
    IN  Len(r) >= Len(VaultAbs) /\ SubSeq(r, 1, Len(VaultAbs)) = VaultAbs

\* the vault-relative directory a path names
DirKey(p) == LET r == Resolve(p) IN SubSeq(r, Len(VaultAbs) + 1, Len(r))

FilePath(dir, name) == [dir |-> dir, name |-> name]

----------------------------------------------------------------------------
(* The filesystem.                                                         *)

Absent == [st |-> "absent", meta |-> << >>, body |-> << >>]

\* a file that cannot be opened as UTF-8 text or whose header is not YAML
Bad == [st |-> "bad", meta |-> << >>, body |-> << >>]

Body == << "t", "e", "x", "t" >>

Doc(meta) == [st |-> "ok", meta |-> meta, body |-> Body]

NoDir == [exists |-> FALSE, files |-> << >>]

\* Path.exists() of a directory
DirExists(f, p) ==
    /\ UnderVault(p)
    /\ \/ DirKey(p) = << >>
       \/ DirKey(p) \in DOMAIN f /\ f[DirKey(p)].exists

DirFiles(f, p) ==
    IF UnderVault(p) /\ DirKey(p) \in DOMAIN f /\ f[DirKey(p)].exists
    THEN f[DirKey(p)].files
    ELSE << >>

FileAt(f, fp) ==
    IF fp.name \in DOMAIN DirFiles(f, fp.dir) THEN DirFiles(f, fp.dir)[fp.name]
    ELSE Absent

\* Path.exists() of a file
FileExists(f, fp) == FileAt(f, fp).st # "absent"

\* open() and frontmatter.load() succeed
Loads(f, fp) == FileAt(f, fp).st = "ok"

----------------------------------------------------------------------------
(* Header values of a frontmatter.Post: what YAML can put under a key.     *)

Val(t, n, s) == [t |-> t, n |-> n, s |-> s]

None == Val("none", 0, << >>)

StrVal(s) == Val("str", 0, s)

\* Python truthiness: the operand test of  a or b
Truthy(v) ==
    CASE v.t = "none" -> FALSE
      [] v.t = "str" -> v.s # << >>
      [] v.t = "int" -> v.n # 0
      [] OTHER -> TRUE

\* Python's str()
PyStr(v) ==
    CASE v.t = "str" -> v.s
      [] v.t = "int" -> IntText(v.n)
      [] v.t = "date" -> strftime(v.n)
      [] v.t = "datetime" -> strftime(v.n) \o << " " >> \o Midnight
      [] OTHER -> << "N", "o", "n", "e" >>

\* post.get(key)
Get(post, key) == IF key \in DOMAIN post THEN post[key] ELSE None

\* a or b
Or(a, b) == IF Truthy(a) THEN a ELSE b

Stem(name) ==
    LET dots == { i \in 2..Len(name) : name[i] = "." }
    IN  IF dots = {} THEN name
        ELSE SubSeq(name, 1, (CHOOSE i \in dots : \A j \in dots : j <= i) - 1)

\* str.title()
TitleCase(s) ==
    [i \in 1..Len(s) |->
        IF i = 1 \/ ~IsCased(s[i - 1]) THEN ToUpper(s[i]) ELSE ToLower(s[i])]

\* re.sub(r'\s*[-_]\s*', ' ', filename).title(); the model's names hold no
\* whitespace, so every "-" and "_" becomes one space
extract_title_from_path(path) ==
    LET filename == Stem(path.name)
    IN  TitleCase([i \in 1..Len(filename) |->
                     IF filename[i] \in {"-", "_"} THEN " " ELSE filename[i]])

created_of(post) ==
    Or(Or(Or(Get(post, "Created"), Get(post, "created")), Get(post, "date")),
       Get(post, "Date"))

description_of(post) ==
    Or(Or(Or(Get(post, "Description"), Get(post, "description")),
          Get(post, "Summary")),
       Get(post, "summary"))

parse_note(id, path, post) ==
    LET title == Or(Or(Get(post, "title"), Get(post, "Title")),
                    StrVal(extract_title_from_path(path)))
        created == created_of(post)
        description == description_of(post)
    IN  [note_id |-> id,
         path |-> path,
         title |-> StrOrNone(PyStr(title)),
         created |-> IF created.t = "datetime" THEN SomeStr(isoformat(created.n))
                     ELSE IF Truthy(created) THEN SomeStr(PyStr(created))
                     ELSE NoneStr,
         description |-> IF description.t # "none"
                         THEN SomeStr(PyStr(description))
                         ELSE NoneStr]

----------------------------------------------------------------------------
(* The directory note-set builder.                                         *)

PathLess(p, q) == LexLess(p.name, q.name)

\* the paths of a set in ascending order
Ascending(S) ==
    LET below == [p \in S |-> Cardinality({ q \in S : PathLess(q, p) })]
    IN  [i \in 1..Cardinality(S) |-> CHOOSE p \in S : below[p] = i - 1]

Reverse(s) == [i \in 1..Len(s) |-> s[Len(s) + 1 - i]]

\* directory.glob("*" + suffix): the entries are listed in the directory's
\* own order, which no caller controls; the model lists them descending
glob(f, directory, suffix) ==
    Reverse(Ascending({ FilePath(directory, n) :
                          n \in { m \in DOMAIN DirFiles(f, directory) :
                                    /\ EndsWith(m, suffix)
                                    /\ DirFiles(f, directory)[m].st # "absent" } }))

sorted_identity(paths) == paths

sorted(paths) == Ascending(Range(paths))

scan_markdown_files_abort(f, directory) ==
    LET markdown_files == glob(f, directory, MdSuffix)
                            \o glob(f, directory, MarkdownSuffix)
        files == sorted(markdown_files)
        scan[i \in 0..Len(files)] ==
            IF i = 0 THEN [notes |-> << >>, live |-> TRUE]
            ELSE LET before == scan[i - 1]
                 IN  IF before.live /\ Loads(f, files[i])
                     THEN [notes |-> Append(before.notes,
                                            parse_note(i, files[i],
                                                       FileAt(f, files[i]).meta)),
                           live |-> TRUE]
                     ELSE [notes |-> before.notes, live |-> FALSE]
    IN  scan[Len(files)].notes

\* files[i] is Python's i-th (0-based i - 1) element: its id is i
scan_markdown_files(f, directory) ==
    LET markdown_files == glob(f, directory, MdSuffix)
                            \o glob(f, directory, MarkdownSuffix)
        files == sorted(markdown_files)
        scan[i \in 0..Len(files)] ==
            IF i = 0 THEN << >>
            ELSE IF Loads(f, files[i])
                 THEN Append(scan[i - 1],
                             parse_note(i, files[i], FileAt(f, files[i]).meta))
                 ELSE scan[i - 1]
    IN  scan[Len(files)]

\* the absent directory of a NoteSet
NoDirectory == << >>

NoteSet(directory, daily_notes, ns) ==
    [generated_by |-> "expose_notes",
     directory |-> directory,
     daily_notes |-> daily_notes,
     total_files |-> Len(ns),
     notes |-> ns]

build_note_set_for_notes(ns, output_dir, output_name) ==
    NoteSet(Resolve(output_dir), FALSE, ns)

LLM_SUMMARY_FILENAME ==
    << ".", "l", "l", "m", "_", "s", "u", "m", "m", "a", "r", "y", ".",
       "j", "s", "o", "n" >>

build_note_set_for_source(f, directory) ==
    build_note_set_for_notes(scan_markdown_files(f, directory),
                             directory, LLM_SUMMARY_FILENAME)

----------------------------------------------------------------------------
(* The configuration and its effective source list.                        *)

Description(text, days) == [text |-> text, days |-> days]

NoteSource(source_id, name, path, daily_notes, description) ==
    [source_id |-> source_id,
     name |-> name,
     path |-> path,
     daily_notes |-> daily_notes,
     description |-> description]

DailyNotesConfig(enabled, days, paths) ==
    [enabled |-> enabled, days |-> days, paths |-> paths]

NotesConfig(ns, vault_path, daily_notes) ==
    [notes |-> ns, vault_path |-> vault_path, daily_notes |-> daily_notes]

\* vault / path exists for every daily path, or the configuration is refused
build_configuration_ok(cfg, f) ==
    cfg.daily_notes.enabled =>
        \A i \in 1..Len(cfg.daily_notes.paths) :
            DirExists(f, Join(cfg.vault_path, cfg.daily_notes.paths[i]))

\* notes is config.notes itself, so insert() changes the configuration's
\* list: the result holds the returned list and the configuration after
get_note_sources(cfg) ==
    LET ns == cfg.notes
        after ==
            IF cfg.daily_notes.enabled
            THEN << NoteSource(Len(ns) + 1, "Daily Notes", << >>, TRUE,
                               Description("My daily notes for the last days.",
                                           cfg.daily_notes.days)) >> \o ns
            ELSE ns
    IN  [ret |-> after, config |-> [cfg EXCEPT !.notes = after]]

----------------------------------------------------------------------------
(* The daily note-set builder.                                             *)

DailyTitle(filename) == << "Daily Note for " >> \o filename

DailyDescription ==
    << "A daily written update that captures thoughts, events, and reflections for the day." >>

\* the pairs (days_ago, raw_path) in the order the two loops visit them
DailyPairs(policy) ==
    [k \in 1..(policy.days * Len(policy.paths)) |->
        [days_ago |-> (k - 1) \div Len(policy.paths),
         raw_path |-> policy.paths[((k - 1) % Len(policy.paths)) + 1]]]

DailyNotePath(pair) ==
    FilePath(pair.raw_path, strftime(Today - pair.days_ago) \o MdSuffix)

DailyNote(pair) ==
    [note_id |-> pair.days_ago + 1,
     path |-> DailyNotePath(pair),
     title |-> SomeStr(DailyTitle(strftime(Today - pair.days_ago))),
     created |-> SomeStr(isoformat(Today - pair.days_ago)),
     description |-> SomeStr(DailyDescription)]

NoSet == [kind |-> "none", set |-> << >>]

Raised == [kind |-> "raise", set |-> << >>]

Built(note_set) == [kind |-> "set", set |-> << note_set >>]

build_daily_note_set_dedup(daily_notes_config, vault_path, f) ==
    IF ~daily_notes_config.enabled THEN NoSet
    ELSE
        LET pairs == DailyPairs(daily_notes_config)
            at(k) == FilePath(Join(vault_path, DailyNotePath(pairs[k]).dir),
                              DailyNotePath(pairs[k]).name)
            loop[k \in 0..Len(pairs)] ==
                IF k = 0 THEN [ns |-> << >>, raised |-> FALSE]
                ELSE
                    LET before == loop[k - 1]
                    IN  IF before.raised THEN before
                        ELSE IF ~FileExists(f, at(k)) THEN before
                        ELSE IF ~Loads(f, at(k))
                             THEN [ns |-> before.ns, raised |-> TRUE]
                        ELSE IF \E j \in 1..Len(before.ns) :
                                    before.ns[j].note_id = pairs[k].days_ago + 1
                             THEN before
                        ELSE [ns |-> Append(before.ns, DailyNote(pairs[k])),
                              raised |-> FALSE]
            done == loop[Len(pairs)]
        IN  IF done.raised THEN Raised
            ELSE Built(NoteSet(NoDirectory, TRUE, done.ns))

\* a candidate that exists is opened and loaded outside any try: a file
\* that does not load ends the build with its exception
build_daily_note_set(daily_notes_config, vault_path, f) ==
    IF ~daily_notes_config.enabled THEN NoSet
    ELSE
        LET pairs == DailyPairs(daily_notes_config)
            at(k) == FilePath(Join(vault_path, DailyNotePath(pairs[k]).dir),
                              DailyNotePath(pairs[k]).name)
            loop[k \in 0..Len(pairs)] ==
                IF k = 0 THEN [ns |-> << >>, raised |-> FALSE]
                ELSE
                    LET before == loop[k - 1]
                    IN  IF before.raised THEN before
                        ELSE IF ~FileExists(f, at(k)) THEN before
                        ELSE IF ~Loads(f, at(k))
                             THEN [ns |-> before.ns, raised |-> TRUE]
                        ELSE [ns |-> Append(before.ns, DailyNote(pairs[k])),
                              raised |-> FALSE]
            done == loop[Len(pairs)]
        IN  IF done.raised THEN Raised
            ELSE Built(NoteSet(NoDirectory, TRUE, done.ns))

----------------------------------------------------------------------------
(* The source resolver: one note-set per effective source.                 *)

get_note_sets(cfg, notes_sources, f) ==
    IF notes_sources = << >> THEN [raised |-> FALSE, sets |-> << >>]
    ELSE
        LET vault == cfg.vault_path
            loop[i \in 0..Len(notes_sources)] ==
                IF i = 0 THEN [raised |-> FALSE, sets |-> << >>]
                ELSE
                    LET before == loop[i - 1]
                        note == notes_sources[i]
                        d == build_daily_note_set(cfg.daily_notes, vault, f)
                        path == IF note.path # << >>
                                THEN Join(vault, note.path)
                                ELSE vault
                    IN  IF before.raised THEN before
                        ELSE IF note.daily_notes
                             THEN CASE d.kind = "raise" ->
                                         [before EXCEPT !.raised = TRUE]
                                    [] d.kind = "set" ->
                                         [before EXCEPT
                                            !.sets = Append(@, d.set[1])]
                                    [] OTHER -> before
                        ELSE [before EXCEPT
                                !.sets = Append(@,
                                    build_note_set_for_source(f, path))]
        IN  loop[Len(notes_sources)]

----------------------------------------------------------------------------
(* The catalog queries.  An outcome is the value returned or the error     *)
(* raised.                                                                 *)

Ok(v) == [err |-> "", val |-> << v >>]

Err(e) == [err |-> e, val |-> << >>]

\* the first source with the id, if any
get_note_source(ns, source_id) ==
    LET hits == { i \in 1..Len(ns) : ns[i].source_id = source_id }
    IN  IF hits = {} THEN << >>
        ELSE << ns[CHOOSE i \in hits : \A j \in hits : i <= j] >>

get_note_set(ns, sets, vault, f, source_id) ==
    LET found == get_note_source(ns, source_id)
        source == found[1]
        dailies == { i \in 1..Len(sets) : sets[i].daily_notes }
        path == Join(vault, source.path)
        \* the first directory set the loop stops at: it raises on a set
        \* without directory and returns on an equal one
        stops == { i \in 1..Len(sets) :
                     /\ ~sets[i].daily_notes
                     /\ \/ sets[i].directory = NoDirectory
                        \/ sets[i].directory = path }
        first == CHOOSE i \in stops : \A j \in stops : i <= j
    IN  IF found = << >> THEN Err("source not found")
        ELSE IF source.daily_notes /\ dailies # {}
             THEN Ok(sets[CHOOSE i \in dailies : \A j \in dailies : i <= j])
        ELSE IF source.path = << >> THEN Err("source has no valid path")
        ELSE IF ~DirExists(f, path) THEN Err("source path does not exist")
        ELSE IF stops = {} THEN Err("note set not found")
        ELSE IF sets[first].directory = NoDirectory
             THEN Err("no directory set")
        ELSE Ok(sets[first])

get_note(ns, sets, vault, f, source_id, note_id) ==
    LET got == get_note_set(ns, sets, vault, f, source_id)
        note_set == got.val[1]
        hits == { i \in 1..Len(note_set.notes) :
                    note_set.notes[i].note_id = note_id }
    IN  IF got.err # "" THEN got
        ELSE IF hits = {} THEN Err("note not found")
        ELSE Ok(note_set.notes[CHOOSE i \in hits : \A j \in hits : i <= j])

get_note_text(ns, sets, vault, f, source_id, note_id) ==
    LET got == get_note(ns, sets, vault, f, source_id, note_id)
        note == got.val[1]
        note_path == FilePath(Join(vault, note.path.dir), note.path.name)
    IN  IF got.err # "" THEN got
        ELSE IF ~FileExists(f, note_path) THEN Err("note file does not exist")
        ELSE IF ~Loads(f, note_path) THEN Err("load failed")
        ELSE Ok(FileAt(f, note_path).body)

----------------------------------------------------------------------------
(* Inputs: configurations and filesystems.                                 *)

Work == << "work" >>

Journal == << "journal" >>

DailyDirs == { Journal, Work }

\* a source without path (the vault itself is scanned) or under work/
SourcePaths == { << >>, Work }

StemLetters == << "a", "b", "c", "d" >>

FileName(stem, suffix) == << stem >> \o suffix

DatedName(day) == strftime(day) \o MdSuffix

Header0 == << >>

\* sequences over S of length lo..hi
SeqsOf(S, lo, hi) == UNION { [1..n -> S] : n \in lo..hi }

Files(names, contents) == [names -> contents]

Dir(files) == [exists |-> TRUE, files |-> files]

\* configured sources: ids unique and positive, listed in ascending order,
\* not necessarily dense
SourceLists ==
    { ns \in SeqsOf({ NoteSource(id, "notes", path, FALSE,
                                 Description("configured", 0)) :
                        id \in 1..MaxSourceId, path \in SourcePaths },
                    0, MaxSources) :
        \A i \in 1..Len(ns) : \A j \in 1..Len(ns) :
            i < j => ns[i].source_id < ns[j].source_id }

AllPolicies ==
    { DailyNotesConfig(e, d, ps) :
        e \in BOOLEAN, d \in 1..MaxDays,
        ps \in SeqsOf(DailyDirs, 0, MaxDailyPaths) }

\* the policies of the catalog runs: no daily notes, or today's notes of
\* two directories
CatalogPolicies ==
    { DailyNotesConfig(FALSE, 1, << Journal, Work >>),
      DailyNotesConfig(TRUE, 1, << Journal, Work >>) }

CatalogConfigs ==
    { NotesConfig(ns, v, d) :
        ns \in SourceLists, v \in VaultForms, d \in CatalogPolicies }

\* work/ holds a note a.md and perhaps today's daily note, journal/ perhaps
\* today's daily note; either directory may be missing
CatalogFilesystems ==
    { [d \in DailyDirs |-> IF d = Work THEN w ELSE j] :
        w \in { NoDir } \cup
              { Dir([n \in { FileName("a", MdSuffix), DatedName(Today) }
                       |-> IF n = DatedName(Today) THEN t ELSE a]) :
                  a \in { Doc(Header0), Bad },
                  t \in { Absent, Doc(Header0) } },
        j \in { NoDir } \cup
              { Dir(fl) :
                  fl \in Files({ DatedName(Today) },
                               { Absent, Doc(Header0), Bad }) } }

DailyFilesystems ==
    { [d \in DailyDirs |-> Dir(byDir[d])] :
        byDir \in [DailyDirs ->
                     Files({ DatedName(Today - k) : k \in 0..(MaxDays - 1) },
                           { Absent, Doc(Header0), Bad })] }

ScanNames ==
    { FileName(StemLetters[i], sfx) :
        i \in 1..MaxStems, sfx \in { MdSuffix, MarkdownSuffix } }
      \cup { FileName("a", TxtSuffix) }

ScanFilesystems ==
    { [d \in { Work } |-> Dir(fl)] :
        fl \in Files(ScanNames, { Absent, Doc(Header0), Bad }) }

CreatedKeys == { "Created", "created", "date", "Date" }

\* a timestamp, a date, a text, the empty text, zero, YAML null
HeaderValues ==
    { Val("datetime", 1, << >>), Val("date", 2, << >>),
      StrVal(strftime(3)), StrVal(<< >>), Val("int", 0, << >>), None }

Headers == UNION { [ks -> HeaderValues] : ks \in SUBSET CreatedKeys }

ParseFilesystems ==
    { [d \in { Work } |->
         Dir([n \in { FileName("a", MdSuffix) } |-> Doc(h)])] : h \in Headers }

PlainConfig == NotesConfig(<< >>, VaultAbs, DailyNotesConfig(FALSE, 1, << >>))

NoResult == [op |-> "none", args |-> << >>, out |-> Err("")]

Answer(op, args, out) == [op |-> op, args |-> args, out |-> out]

SourceIds == 1..(MaxSourceId + 1)

NoteIds == 1..MaxNoteId

----------------------------------------------------------------------------
(* Startup (main.py, module level) and the queries served after it.        *)

Init ==
    /\ pc = "start"
    /\ config \in CatalogConfigs
    /\ fs \in CatalogFilesystems
    /\ notes = << >>
    /\ note_sets = << >>
    /\ result = NoResult

\* config = build_configuration()
BuildConfiguration ==
    /\ pc = "start"
    /\ pc' = IF build_configuration_ok(config, fs) THEN "configured" ELSE "failed"
    /\ UNCHANGED <<config, fs, notes, note_sets, result>>

\* notes = get_note_sources(config)
GetNoteSources ==
    /\ pc = "configured"
    /\ notes' = get_note_sources(config).ret
    /\ config' = get_note_sources(config).config
    /\ pc' = "sourced"
    /\ UNCHANGED <<fs, note_sets, result>>

\* note_sets = get_note_sets(config, notes)
GetNoteSets ==
    /\ pc = "sourced"
    /\ LET built == get_note_sets(config, notes, fs)
       IN  /\ pc' = IF built.raised THEN "failed" ELSE "ready"
           /\ note_sets' = built.sets
    /\ UNCHANGED <<config, fs, notes, result>>

GetNoteSourceListRebuilding ==
    /\ pc = "ready"
    /\ notes' = get_note_sources(config).ret
    /\ config' = get_note_sources(config).config
    /\ result' = Answer("get_note_source_list", << >>, Ok(notes'))
    /\ UNCHANGED <<pc, fs, note_sets>>

GetNoteSourceList ==
    /\ pc = "ready"
    /\ result' = Answer("get_note_source_list", << >>, Ok(notes))
    /\ UNCHANGED <<pc, config, fs, notes, note_sets>>

GetNoteSet ==
    /\ pc = "ready"
    /\ \E source_id \in SourceIds :
          result' = Answer("get_note_set", << source_id >>,
                           get_note_set(notes, note_sets, config.vault_path,
                                        fs, source_id))
    /\ UNCHANGED <<pc, config, fs, notes, note_sets>>

GetNote ==
    /\ pc = "ready"
    /\ \E source_id \in SourceIds, note_id \in NoteIds :
          result' = Answer("get_note", << source_id, note_id >>,
                           get_note(notes, note_sets, config.vault_path,
                                    fs, source_id, note_id))
    /\ UNCHANGED <<pc, config, fs, notes, note_sets>>

GetNoteText ==
    /\ pc = "ready"
    /\ \E source_id \in SourceIds, note_id \in NoteIds :
          result' = Answer("get_note_text", << source_id, note_id >>,
                           get_note_text(notes, note_sets, config.vault_path,
                                         fs, source_id, note_id))
    /\ UNCHANGED <<pc, config, fs, notes, note_sets>>

\* the environment: a directory of the vault is deleted while the server runs
RemoveDirectory ==
    /\ pc = "ready"
    /\ \E d \in DOMAIN fs :
          /\ fs[d].exists
          /\ fs' = [fs EXCEPT ![d] = NoDir]
    /\ UNCHANGED <<pc, config, notes, note_sets, result>>

Next ==
    \/ BuildConfiguration
    \/ GetNoteSources
    \/ GetNoteSets
    \/ GetNoteSourceList
    \/ GetNoteSet
    \/ GetNote
    \/ GetNoteText
    \/ RemoveDirectory

Spec == Init /\ [][Next]_vars

----------------------------------------------------------------------------
(* The builders and the extractor on their own inputs.                     *)

InitScan ==
    /\ pc = "scan"
    /\ config = PlainConfig
    /\ fs \in ScanFilesystems
    /\ notes = << >>
    /\ note_sets = << >>
    /\ result = NoResult

ScanSource ==
    /\ pc = "scan"
    /\ note_sets' = << build_note_set_for_source(fs, Join(config.vault_path, Work)) >>
    /\ pc' = "scanned"
    /\ UNCHANGED <<config, fs, notes, result>>

NextScan == ScanSource

SpecScan == InitScan /\ [][NextScan]_vars

InitDaily ==
    /\ pc = "daily"
    /\ config \in { NotesConfig(<< >>, VaultAbs, d) : d \in AllPolicies }
    /\ fs \in DailyFilesystems
    /\ notes = << >>
    /\ note_sets = << >>
    /\ result = NoResult

BuildDaily ==
    /\ pc = "daily"
    /\ LET d == build_daily_note_set(config.daily_notes, config.vault_path, fs)
       IN  /\ pc' = d.kind
           /\ note_sets' = d.set
    /\ UNCHANGED <<config, fs, notes, result>>

NextDaily == BuildDaily

SpecDaily == InitDaily /\ [][NextDaily]_vars

InitParse ==
    /\ pc = "parse"
    /\ config = PlainConfig
    /\ fs \in ParseFilesystems
    /\ notes = << >>
    /\ note_sets = << >>
    /\ result = NoResult

ParsedPath == FilePath(Join(config.vault_path, Work), FileName("a", MdSuffix))

ParseNote ==
    /\ pc = "parse"
    /\ result' = Answer("parse_note", << 1 >>,
                        Ok(parse_note(1, ParsedPath, FileAt(fs, ParsedPath).meta)))
    /\ pc' = "parsed"
    /\ UNCHANGED <<config, fs, notes, note_sets>>

NextParse == ParseNote

SpecParse == InitParse /\ [][NextParse]_vars

----------------------------------------------------------------------------
(* Properties.                                                             *)

\* the note-set a builder run left in note_sets
TheSet == note_sets[1]

Policy == config.daily_notes

\* the (days_ago, position in paths) pairs whose dated file exists
HitPairs ==
    { h \in (0..(Policy.days - 1)) \X (1..Len(Policy.paths)) :
        FileExists(fs, FilePath(Join(config.vault_path, Policy.paths[h[2]]),
                                DatedName(Today - h[1]))) }

\* day offset first, position in the path list second
PairBefore(g, h) == g[1] < h[1] \/ (g[1] = h[1] /\ g[2] < h[2])

PairRank(h) == Cardinality({ g \in HitPairs : PairBefore(g, h) })

\* C1: in the daily note-set note_id is a 1-based counter over the hits, in
\* iteration order: the k-th note has note_id k (one file present out of
\* several candidate days gives a single note with note_id 1).
C1_DailyIdsCountHits ==
    pc = "set" =>
        \A k \in 1..Len(TheSet.notes) : TheSet.notes[k].note_id = k

\* C2: in every note-set built at startup no two notes carry the same
\* note_id, and get_note(source_id, n.note_id) returns n for every note n of
\* the note-set of a source.
C2_NoteIdsUnique ==
    pc = "ready" =>
        /\ \A s \in 1..Len(note_sets) :
              \A i, j \in 1..Len(note_sets[s].notes) :
                  i # j => note_sets[s].notes[i].note_id
                             # note_sets[s].notes[j].note_id
        /\ \A id \in SourceIds :
              LET got == get_note_set(notes, note_sets, config.vault_path,
                                      fs, id)
              IN  got.err = "" =>
                      \A k \in 1..Len(got.val[1].notes) :
                          get_note(notes, note_sets, config.vault_path, fs,
                                   id, got.val[1].notes[k].note_id)
                            = Ok(got.val[1].notes[k])

\* the configured (non-daily) sources with a path whose directory exists
LiveSources ==
    { i \in 1..Len(notes) :
        /\ ~notes[i].daily_notes
        /\ notes[i].path # << >>
        /\ DirExists(fs, Join(config.vault_path, notes[i].path)) }

\* C3: after startup, get_note_set of a configured source whose directory
\* exists returns the note-set built from that directory, the one whose
\* directory is the resolved vault/source.path, whatever the form of the
\* configured vault path; it does not fail with "note set not found" while
\* such a note-set exists.
C3_SourceFindsItsSet ==
    pc = "ready" =>
        \A i \in LiveSources :
            LET got == get_note_set(notes, note_sets, config.vault_path,
                                    fs, notes[i].source_id)
            IN  /\ got.err = ""
                /\ ~got.val[1].daily_notes
                /\ got.val[1].directory
                     = Resolve(Join(config.vault_path, notes[i].path))

\* C4: source_id is unique in the effective source list: the synthetic
\* daily source's id differs from every configured id, and get_note_source
\* resolves each configured source by its own id.
C4_SourceIdsUnique ==
    pc \in { "sourced", "ready" } =>
        /\ \A i, j \in 1..Len(notes) :
              i # j => notes[i].source_id # notes[j].source_id
        /\ \A i \in 1..Len(notes) :
              ~notes[i].daily_notes =>
                  get_note_source(notes, notes[i].source_id) = << notes[i] >>

\* the *.md and *.markdown entries of the scanned directory
Candidates ==
    { n \in DOMAIN fs[Work].files :
        /\ EndsWith(n, MdSuffix) \/ EndsWith(n, MarkdownSuffix)
        /\ fs[Work].files[n].st # "absent" }

Parsable == { n \in Candidates : fs[Work].files[n].st = "ok" }

NoteNames(ns) == { ns[k].path.name : k \in 1..Len(ns) }

\* C5: a file that fails to load is skipped and every other candidate is
\* still processed: the note-set holds exactly one note per file that
\* parses, and total_files is the number of notes.
C5_ScanSkipsBadFiles ==
    pc = "scanned" =>
        /\ Len(TheSet.notes) = Cardinality(Parsable)
        /\ NoteNames(TheSet.notes) = Parsable
        /\ TheSet.total_files = Len(TheSet.notes)

\* C5 witness: a scan met an unparsable file between two that parse.
C5_Witness ==
    /\ pc = "scanned"
    /\ \E b \in Candidates \ Parsable :
          /\ \E a \in Parsable : LexLess(a, b)
          /\ \E c \in Parsable : LexLess(b, c)
    /\ Len(TheSet.notes) = Cardinality(Candidates) - 1

\* C6 as stated: the notes of a directory note-set are in lexicographic
\* filename order and the k-th note has note_id k, also when a file was
\* skipped.
C6_IdsArePositionsInSet ==
    pc = "scanned" =>
        /\ \A i, j \in 1..Len(TheSet.notes) :
              i < j => LexLess(TheSet.notes[i].path.name,
                               TheSet.notes[j].path.name)
        /\ \A k \in 1..Len(TheSet.notes) : TheSet.notes[k].note_id = k

\* C6 amended: the notes of a directory note-set are in lexicographic
\* filename order over the *.md and *.markdown candidates, and a note's
\* note_id is the 1-based position of its file among all the sorted
\* candidates, skipped ones included; the k-th note has note_id k when no
\* candidate was skipped.
C6_IdsArePositionsInScan ==
    pc = "scanned" =>
        /\ \A i, j \in 1..Len(TheSet.notes) :
              i < j => LexLess(TheSet.notes[i].path.name,
                               TheSet.notes[j].path.name)
        /\ NoteNames(TheSet.notes) \subseteq Candidates
        /\ \A k \in 1..Len(TheSet.notes) :
              TheSet.notes[k].note_id
                = 1 + Cardinality({ n \in Candidates :
                                      LexLess(n, TheSet.notes[k].path.name) })
        /\ Candidates = Parsable =>
              \A k \in 1..Len(TheSet.notes) : TheSet.notes[k].note_id = k

\* C6 witness: a scan of *.md and *.markdown files in which a skipped file
\* precedes a parsed one, whose note_id exceeds its position in the set.
C6_Witness ==
    /\ pc = "scanned"
    /\ \E k \in 1..Len(TheSet.notes) : TheSet.notes[k].note_id > k
    /\ \E k \in 1..Len(TheSet.notes) :
          EndsWith(TheSet.notes[k].path.name, MarkdownSuffix)
    /\ \E k \in 1..Len(TheSet.notes) :
          EndsWith(TheSet.notes[k].path.name, MdSuffix)

ParsedPost == FileAt(fs, ParsedPath).meta

\* a key counts as present when the header holds a value (not null) for it
PresentKeys ==
    { k \in DOMAIN ParsedPost : ParsedPost[k].t # "none" }

CreatedOrder == << "Created", "created", "date", "Date" >>

FirstPresent ==
    CreatedOrder[CHOOSE i \in 1..4 :
                    /\ CreatedOrder[i] \in PresentKeys
                    /\ \A j \in 1..(i - 1) : CreatedOrder[j] \notin PresentKeys]

\* C8: created comes from the first of Created, created, date, Date that is
\* present, whatever its value: a timestamp as ISO-8601, anything else as
\* its string form; created is null exactly when none of the keys is present.
C8_CreatedFirstPresentWins ==
    pc = "parsed" =>
        result.out.val[1].created
          = IF PresentKeys = {} THEN NoneStr
            ELSE IF ParsedPost[FirstPresent].t = "datetime"
                 THEN SomeStr(isoformat(ParsedPost[FirstPresent].n))
            ELSE SomeStr(PyStr(ParsedPost[FirstPresent]))

\* C9: once startup is over no query, successful or failed, changes the
\* source list or the note-set list, and two successive answers of
\* get_note_source_list are equal.
C9_CatalogImmutable ==
    [][pc = "ready" =>
          /\ notes' = notes
          /\ note_sets' = note_sets
          /\ (result.op = "get_note_source_list"
                /\ result'.op = "get_note_source_list")
               => result'.out = result.out]_vars

\* C9 witness: a query failed against a catalog holding several sources and
\* note-sets.
C9_Witness ==
    /\ pc = "ready"
    /\ Len(notes) > 1 /\ Len(note_sets) > 1
    /\ result.op = "get_note"
    /\ result.out.err = "note not found"

\* C10: get_note_set and get_note depend on the catalog and their arguments
\* only: asked again with the same arguments they give the same outcome,
\* whatever happened to the filesystem in between.
C10_QueriesIgnoreFilesystem ==
    [][(/\ pc = "ready"
        /\ result.op \in { "get_note_set", "get_note" }
        /\ result'.op = result.op
        /\ result'.args = result.args)
          => result'.out = result.out]_vars

\* the positions of the daily sources in a source list
DailyPositions(list) == { i \in 1..Len(list) : list[i].daily_notes }

\* C11: get_note_sources is a pure function of the configuration: once the
\* source list is built the configuration's stored list config.notes still
\* holds the configured sources only (no daily source), and calling
\* get_note_sources again on the configuration returns the same list, with
\* exactly one daily source when daily notes are enabled and none otherwise.
C11_GetNoteSourcesPure ==
    pc \in { "sourced", "ready" } =>
        /\ DailyPositions(config.notes) = { }
        /\ get_note_sources(config).config = config
        /\ get_note_sources(config).ret = notes
        /\ Cardinality(DailyPositions(get_note_sources(config).ret))
             = IF config.daily_notes.enabled THEN 1 ELSE 0

====
